---- MODULE Spec2Model ----
(***************************************************************************)
(* Model of quote_parser.py: price normalisation, price scanning, the      *)
(* three vendor parsing strategies, format detection with its fallback     *)
(* chain, per-quantity aggregation and the per-document outcome.           *)
(*                                                                         *)
(* Text is a sequence of one-character strings.  Regular expressions are   *)
(* syntax trees evaluated by a backtracking matcher that returns the       *)
(* alternatives in the order Python's re module tries them (greedy first), *)
(* so the first alternative is the match re reports.                       *)
(***************************************************************************)
EXTENDS Integers, Sequences, FiniteSets, TLC

VARIABLES lines, price_str, env, call, ret, ran

vars == <<lines, price_str, env, call, ret, ran>>

(***************************************************************************)
(* Characters and strings                                                  *)
(***************************************************************************)
DigitSeq == <<"0", "1", "2", "3", "4", "5", "6", "7", "8", "9">>
UpperSeq == <<"A", "B", "C", "D", "E", "F", "G", "H", "I", "J", "K", "L", "M",
              "N", "O", "P", "Q", "R", "S", "T", "U", "V", "W", "X", "Y", "Z">>
LowerSeq == <<"a", "b", "c", "d", "e", "f", "g", "h", "i", "j", "k", "l", "m",
              "n", "o", "p", "q", "r", "s", "t", "u", "v", "w", "x", "y", "z">>

\* Binding.  An operator binds an argument or an intermediate result it
\* uses more than once with `x \in {e}` in a singleton set and takes the
\* set's element, CHOOSE val \in {body : x \in {e}} : TRUE, so that e is
\* computed once, as the assignment it stands for is executed once.  A
\* sequence built as a function [i \in 1..n |-> e] is written f \o <<>>, the
\* same sequence as a tuple.

Range(f) == {f[i] : i \in DOMAIN f}

Digit == Range(DigitSeq)
UpperCh == Range(UpperSeq)
LowerCh == Range(LowerSeq)
\* \s of the re module, and the characters str.strip() removes
Space == {" ", "\t", "\n", "\r", "\f"}
\* \w of the re module
WordCh == Digit \cup UpperCh \cup LowerCh \cup {"_"}

IndexIn(c, sq) == CHOOSE i \in DOMAIN sq : sq[i] = c

\* str.lower() and str.upper(), one character
lower_ch(c) == IF c \in UpperCh THEN LowerSeq[IndexIn(c, UpperSeq)] ELSE c
upper_ch(c) == IF c \in LowerCh THEN UpperSeq[IndexIn(c, LowerSeq)] ELSE c

str_lower(s) == (CHOOSE val \in {[i \in 1..Len(t) |-> lower_ch(t[i])] \o <<>> : t \in {s}} : TRUE)
str_upper(s) == (CHOOSE val \in {[i \in 1..Len(t) |-> upper_ch(t[i])] \o <<>> : t \in {s}} : TRUE)

\* s[a:b] of Python, 0-based, a <= b
Slice(s, a, b) == SubSeq(s, a + 1, b)

\* str.lstrip(): without the leading whitespace
lstrip(s) ==
  (CHOOSE val \in {LET first == {i \in 1..Len(t) : t[i] \notin Space}
       IN IF first = {} THEN <<>>
          ELSE SubSeq(t, CHOOSE i \in first : \A j \in first : i <= j, Len(t))
       : t \in {s}} : TRUE)

\* str.rstrip(): without the trailing whitespace
rstrip(s) ==
  (CHOOSE val \in {LET last == {i \in 1..Len(t) : t[i] \notin Space}
       IN IF last = {} THEN <<>>
          ELSE SubSeq(t, 1, CHOOSE i \in last : \A j \in last : j <= i)
       : t \in {s}} : TRUE)

\* str.strip()
strip(s) == rstrip(lstrip(s))

\* s.startswith(p) at offset i (0-based)
MatchesAt(s, p, i) ==
  /\ i + Len(p) <= Len(s)
  /\ \A k \in 1..Len(p) : s[i + k] = p[k]

\* `p in s`
Contains(s, p) ==
  \E t \in {s} : \E i \in 0..Len(t) : MatchesAt(t, p, i)

\* sep.join(parts)
RECURSIVE join_from(_, _, _)
join_from(sep, parts, k) ==
  IF k > Len(parts) THEN <<>>
  ELSE IF k = Len(parts) THEN parts[k]
  ELSE parts[k] \o sep \o join_from(sep, parts, k + 1)

join(sep, parts) == (CHOOSE val \in {join_from(sep, ps, 1) : ps \in {parts}} : TRUE)

\* s.replace(old, new), every non-overlapping occurrence of the non-empty
\* old, left to right, from offset i (0-based)
RECURSIVE replace_from(_, _, _, _)
replace_from(s, old, new, i) ==
  (CHOOSE val \in {IF hits = {} THEN Slice(s, i, Len(s))
       ELSE (CHOOSE val \in {Slice(s, i, k) \o new \o replace_from(s, old, new, k + Len(old))
                 : k \in {CHOOSE k \in hits : \A j \in hits : k <= j}} : TRUE)
       : hits \in {{k \in i..(Len(s) - Len(old)) : MatchesAt(s, old, k)}}} : TRUE)

replace(s, old, new) ==
  (CHOOSE val \in {replace_from(t, o, new, 0) : t \in {s}, o \in {old}} : TRUE)

(***************************************************************************)
(* Regular expressions (the re module as the program uses it)              *)
(***************************************************************************)
\* syntax trees; ReIChr and ReILit are a character and a literal under
\* re.IGNORECASE
ReSet(cs) == [op |-> "set", cs |-> cs]
ReChr(c) == [op |-> "set", cs |-> {c}]
ReIChr(c) == [op |-> "set", cs |-> {lower_ch(c), upper_ch(c)}]
ReCat(rs) == [op |-> "cat", rs |-> rs]
ReAlt(rs) == [op |-> "alt", rs |-> rs]
ReOpt(r) == [op |-> "opt", r |-> r]
ReStar(r) == [op |-> "star", r |-> r]
RePlus(r) == [op |-> "cat", rs |-> <<r, [op |-> "star", r |-> r]>>]
ReGroup(r) == [op |-> "grp", r |-> r]
ReBol == [op |-> "bol"]
ReEol == [op |-> "eol"]
ReWordB == [op |-> "wordb"]
\* a literal string (re.escape), and the same under re.IGNORECASE
ReLit(s) == [op |-> "cat", rs |-> [i \in DOMAIN s |-> ReChr(s[i])]]
ReILit(s) == [op |-> "cat", rs |-> [i \in DOMAIN s |-> ReIChr(s[i])]]

IsWordAt(s, i) == i >= 1 /\ i <= Len(s) /\ s[i] \in WordCh

\* A matcher state is the offset reached and the spans of the groups closed
\* so far.  re_m returns the states after r, in re's preference order.
RECURSIVE re_m(_, _, _)
RECURSIVE re_each(_, _, _, _)
RECURSIVE re_cat(_, _, _, _, _)
RECURSIVE re_alt(_, _, _, _)
RECURSIVE re_star(_, _, _)
RECURSIVE re_star_each(_, _, _, _)

\* r after each of the states sts[k..]
re_each(r, s, sts, k) ==
  IF k > Len(sts) THEN <<>>
  ELSE re_m(r, s, sts[k]) \o re_each(r, s, sts, k + 1)

\* rs[a], ..., rs[b] one after the other, after each of the states sts
re_cat(rs, a, b, s, sts) ==
  IF a > b \/ sts = <<>> THEN sts
  ELSE IF a = b THEN re_each(rs[a], s, sts, 1)
  ELSE (CHOOSE val \in {re_cat(rs, ((a + b) \div 2) + 1, b, s, left)
            : left \in {re_cat(rs, a, (a + b) \div 2, s, sts)}} : TRUE)

re_alt(rs, k, s, st) ==
  IF k > Len(rs) THEN <<>>
  ELSE re_m(rs[k], s, st) \o re_alt(rs, k + 1, s, st)

\* r* after each of the states sts[k..]
re_star_each(r, s, sts, k) ==
  IF k > Len(sts) THEN <<>>
  ELSE re_star(r, s, sts[k]) \o re_star_each(r, s, sts, k + 1)

re_star(r, s, st) ==
  (CHOOSE val \in {re_star_each(r, s, moved, 1) \o <<st>>
       : moved \in {SelectSeq(re_m(r, s, st), LAMBDA t : t.pos > st.pos)}} : TRUE)

\* r* where r is a character set: the longest run first, then each shorter one
re_star_set(cs, s, st) ==
  (CHOOSE val \in {[i \in 1..(e - st.pos + 1) |-> [st EXCEPT !.pos = e - i + 1]] \o <<>>
       : e \in {CHOOSE e \in st.pos..Len(s) :
                  /\ \A j \in (st.pos + 1)..e : s[j] \in cs
                  /\ e = Len(s) \/ s[e + 1] \notin cs}} : TRUE)

re_m(r, s, st) ==
  CASE r.op = "set" ->
         IF st.pos < Len(s) /\ s[st.pos + 1] \in r.cs
         THEN <<[st EXCEPT !.pos = @ + 1]>> ELSE <<>>
    [] r.op = "cat" -> re_cat(r.rs, 1, Len(r.rs), s, <<st>>)
    [] r.op = "alt" -> re_alt(r.rs, 1, s, st)
    [] r.op = "opt" -> re_m(r.r, s, st) \o <<st>>
    [] r.op = "star" ->
         IF r.r.op = "set" THEN re_star_set(r.r.cs, s, st) ELSE re_star(r.r, s, st)
    [] r.op = "grp" ->
         (CHOOSE val \in {[i \in 1..Len(inner) |->
                 [inner[i] EXCEPT !.caps = Append(@, <<st.pos, inner[i].pos>>)]]
              \o <<>>
              : inner \in {re_m(r.r, s, st)}} : TRUE)
    [] r.op = "bol" -> IF st.pos = 0 THEN <<st>> ELSE <<>>
    [] r.op = "eol" ->
         IF st.pos = Len(s) \/ (st.pos = Len(s) - 1 /\ s[Len(s)] = "\n")
         THEN <<st>> ELSE <<>>
    [] r.op = "wordb" ->
         IF IsWordAt(s, st.pos) # IsWordAt(s, st.pos + 1) THEN <<st>> ELSE <<>>

NoMatch == [found |-> FALSE]

\* the preferred match of r in s starting exactly at offset i
re_at(r, s, i) ==
  (CHOOSE val \in {IF res = <<>> THEN NoMatch
       ELSE [found |-> TRUE, start |-> i, end |-> res[1].pos, caps |-> res[1].caps]
       : res \in {re_m(r, s, [pos |-> i, caps |-> <<>>])}} : TRUE)

\* re.match(r0, s0) from offset i
re_match_at(r0, s0, i) ==
  (CHOOSE val \in {re_at(r, s, i) : r \in {r0}, s \in {s0}} : TRUE)

\* the preferred match at every offset of s0: entry i + 1 is the match at i
re_matches(r0, s0) ==
  (CHOOSE val \in {[i \in 1..(Len(s) + 1) |-> re_at(r, s, i - 1)] \o <<>>
       : r \in {r0}, s \in {s0}} : TRUE)

\* re.search(r, s) scanning from offset i: the leftmost match, read off
\* ms = re_matches(r, s)
re_search_from(ms, i) ==
  LET hits == {j \in (i + 1)..Len(ms) : ms[j].found}
  IN IF hits = {} THEN NoMatch
     ELSE ms[CHOOSE j \in hits : \A k \in hits : j <= k]

re_search(r, s) ==
  (CHOOSE val \in {re_search_from(ms, 0) : ms \in {re_matches(r, s)}} : TRUE)

\* re.findall(r, s): the non-overlapping matches left to right (none of the
\* program's patterns matches the empty string)
RECURSIVE re_finditer(_, _)
re_finditer(ms, i) ==
  (CHOOSE val \in {IF ~m.found THEN <<>>
       ELSE <<m>> \o re_finditer(ms, IF m.end > m.start THEN m.end ELSE m.end + 1)
       : m \in {re_search_from(ms, i)}} : TRUE)

\* findall of a pattern without groups: the matched texts
re_findall(r, s) ==
  (CHOOSE val \in {(CHOOSE val \in {[i \in 1..Len(found) |-> Slice(t, found[i].start, found[i].end)] \o <<>>
            : found \in {(CHOOSE val \in {re_finditer(ms, 0) : ms \in {re_matches(r, t)}} : TRUE)}} : TRUE)
       : t \in {s}} : TRUE)

\* findall of a pattern with one group: the group's texts
re_findall_group(r, s) ==
  (CHOOSE val \in {(CHOOSE val \in {[i \in 1..Len(found) |->
               Slice(t, found[i].caps[1][1], found[i].caps[1][2])] \o <<>>
            : found \in {(CHOOSE val \in {re_finditer(ms, 0) : ms \in {re_matches(r, t)}} : TRUE)}} : TRUE)
       : t \in {s}} : TRUE)

\* re.sub(r, '', s, count) from offset i on: count = 0 removes every match
RECURSIVE re_sub_from(_, _, _, _)
re_sub_from(ms, s, i0, count) ==
  (CHOOSE val \in {IF ~m.found THEN Slice(s, i, Len(s))
       ELSE Slice(s, i, m.start) \o
            (IF count = 1 THEN Slice(s, m.end, Len(s))
             ELSE re_sub_from(ms, s, m.end, IF count = 0 THEN 0 ELSE count - 1))
       : i \in {i0}, m \in {re_search_from(ms, i0)}} : TRUE)

re_sub_empty(r, s, count) ==
  (CHOOSE val \in {(CHOOSE val \in {re_sub_from(ms, t, 0, count) : ms \in {re_matches(r, t)}} : TRUE) : t \in {s}} : TRUE)

(***************************************************************************)
(* Numbers: int(), str(), float() and the '.2f' format                     *)
(***************************************************************************)
DigitVal(c) == IndexIn(c, DigitSeq) - 1

\* int(s) of a string of decimal digits (leading zeros allowed)
RECURSIVE int_upto(_, _)
int_upto(s, n) ==
  IF n = 0 THEN 0 ELSE 10 * int_upto(s, n - 1) + DigitVal(s[n])

py_int(s) == (CHOOSE val \in {int_upto(t, Len(t)) : t \in {s}} : TRUE)

\* str(n) of a natural number
RECURSIVE py_str(_)
py_str(n) ==
  (CHOOSE val \in {IF k < 10 THEN <<DigitSeq[k + 1]>>
       ELSE py_str(k \div 10) \o <<DigitSeq[(k % 10) + 1]>>
       : k \in {n}} : TRUE)

\* without the leading zeros, keeping one digit
strip_zeros(ds) ==
  (CHOOSE val \in {LET first == {i \in 1..Len(t) : t[i] # "0"} \cup {Len(t)}
       IN SubSeq(t, CHOOSE i \in first : \A j \in first : i <= j, Len(t))
       : t \in {ds}} : TRUE)

\* ds + 1 on a digit string
RECURSIVE digits_succ(_)
digits_succ(ds) ==
  (CHOOSE val \in {IF t = <<>> THEN <<"1">>
       ELSE LET init == SubSeq(t, 1, Len(t) - 1)
                last == t[Len(t)]
            IN IF last = "9" THEN digits_succ(init) \o <<"0">>
               ELSE init \o <<DigitSeq[DigitVal(last) + 2]>>
       : t \in {ds}} : TRUE)

\* digit (?: _? digit)* : the digit groups float() accepts
FloatDigitPart ==
  ReCat(<<ReSet(Digit), ReStar(ReCat(<<ReOpt(ReChr("_")), ReSet(Digit)>>))>>)

\* [sign] digits [. [digits]] | [sign] . digits ; groups: sign, integer
\* digits, point, fraction digits.  Exponent forms (1e5) lie outside the
\* alphabets the model draws its text from and are not modelled.
FloatNumberRe ==
  ReCat(<<ReBol, ReGroup(ReOpt(ReSet({"+", "-"}))),
          ReGroup(ReOpt(FloatDigitPart)), ReGroup(ReOpt(ReChr("."))),
          ReGroup(ReOpt(FloatDigitPart)), ReEol>>)

\* [sign] inf | infinity | nan, in any letter case
FloatSpecialRe ==
  ReCat(<<ReBol, ReGroup(ReOpt(ReSet({"+", "-"}))),
          ReGroup(ReAlt(<<ReILit(<<"i", "n", "f", "i", "n", "i", "t", "y">>),
                          ReILit(<<"i", "n", "f">>),
                          ReILit(<<"n", "a", "n">>)>>)), ReEol>>)

ValueError == [ok |-> FALSE]

\* float(s): ValueError, or the value as sign, integer digits and fraction
\* digits (exact decimal; doubles carry 15 significant digits, and the model's
\* texts stay far below that)
py_float(s0) ==
  (CHOOSE val \in {LET cap(mm, k) == Slice(s, mm.caps[k][1], mm.caps[k][2])
           digits(mm, k) == SelectSeq(cap(mm, k), LAMBDA c : c # "_")
       IN (CHOOSE val \in {IF sp.found
               THEN [ok |-> TRUE,
                     kind |-> IF lower_ch(cap(sp, 2)[1]) = "n" THEN "nan" ELSE "inf",
                     neg |-> cap(sp, 1) = <<"-">>, ip |-> <<>>, fp |-> <<>>]
               ELSE IF m.found /\ (cap(m, 2) # <<>> \/ cap(m, 4) # <<>>)
                               /\ (cap(m, 3) # <<>> \/ cap(m, 4) = <<>>)
               THEN [ok |-> TRUE, kind |-> "num", neg |-> cap(m, 1) = <<"-">>,
                     ip |-> digits(m, 2), fp |-> digits(m, 4)]
               ELSE ValueError
               : m \in {re_match_at(FloatNumberRe, s, 0)},
                 sp \in {re_match_at(FloatSpecialRe, s, 0)}} : TRUE)
       : s \in {strip(s0)}} : TRUE)

\* f"{v:.2f}".  Digits beyond the second decide the rounding; when they are
\* exactly one half (5 then zeros) the binary double nearest to the decimal
\* value decides, which half_up stands for.
format_2f(v0, half_up) ==
  (CHOOSE val \in {IF v.kind = "nan" THEN <<"n", "a", "n">>
       ELSE IF v.kind = "inf"
       THEN (IF v.neg THEN <<"-">> ELSE <<>>) \o <<"i", "n", "f">>
       ELSE
         LET fp == v.fp \o <<"0", "0">>
             keep == (IF v.ip = <<>> THEN <<"0">> ELSE v.ip) \o SubSeq(fp, 1, 2)
             rest == SubSeq(fp, 3, Len(fp))
             tailZero == \A i \in 2..Len(rest) : rest[i] = "0"
             up == /\ rest # <<>>
                   /\ \/ DigitVal(rest[1]) > 5
                      \/ DigitVal(rest[1]) = 5 /\ ~tailZero
                      \/ DigitVal(rest[1]) = 5 /\ tailZero /\ half_up
         IN (CHOOSE val \in {(IF v.neg THEN <<"-">> ELSE <<>>)
                 \o strip_zeros(SubSeq(rounded, 1, Len(rounded) - 2)) \o <<".">>
                 \o SubSeq(rounded, Len(rounded) - 1, Len(rounded))
                 : rounded \in {IF up THEN digits_succ(keep) ELSE keep}} : TRUE)
       : v \in {v0}} : TRUE)

ZeroPrice == <<"0", ".", "0", "0">>

(***************************************************************************)
(* normalize_price, extract_prices_from_line                               *)
(***************************************************************************)
CurrencyOrSpace == {"$", "€", "£", "¥"} \cup Space

\* lines 23-31 and the argument of float() on line 35: the token without
\* currency symbols, whitespace and commas, its leading '-' taken off and put
\* back
clean_price(p) ==
  (CHOOSE val \in {LET neg == cleaned2 # <<>> /\ Head(cleaned2) = "-"
           sign == IF neg THEN <<"-">> ELSE <<>>
           cleaned == IF neg THEN Tail(cleaned2) ELSE cleaned2
       IN sign \o cleaned
       : cleaned2 \in {replace(re_sub_empty(ReSet(CurrencyOrSpace), p, 0), <<",">>, <<>>)}} : TRUE)

normalize_price(p, half_up) ==
  IF p = <<>> THEN ZeroPrice
  ELSE (CHOOSE val \in {IF v.ok THEN format_2f(v, half_up) ELSE ZeroPrice
            : v \in {py_float(clean_price(p))}} : TRUE)

DigitOrComma == Digit \cup {","}

\* -?\$?\s*[\d,]+\.\d{2}
PricePatternA ==
  ReCat(<<ReOpt(ReChr("-")), ReOpt(ReChr("$")), ReStar(ReSet(Space)),
          RePlus(ReSet(DigitOrComma)), ReChr("."), ReSet(Digit), ReSet(Digit)>>)

\* -?\$?\s*[\d,]+
PricePatternB ==
  ReCat(<<ReOpt(ReChr("-")), ReOpt(ReChr("$")), ReStar(ReSet(Space)),
          RePlus(ReSet(DigitOrComma))>>)

extract_prices_from_line(line, half_up) ==
  (CHOOSE val \in {(CHOOSE val \in {[i \in 1..Len(kept) |-> normalize_price(kept[i], half_up)] \o <<>>
            : kept \in {SelectSeq(prices, LAMBDA p : strip(p) # <<>>)}} : TRUE)
       : prices \in {re_findall(PricePatternA, line) \o re_findall(PricePatternB, line)}} : TRUE)

(***************************************************************************)
(* Line items and aggregation                                              *)
(***************************************************************************)
Item(description, quantity, unit_price, cost) ==
  [description |-> description, quantity |-> quantity,
   unitPrice |-> unit_price, cost |-> cost]

\* the rejection test shared by the three strategies
accepted(description, quantity, unit_price, cost) ==
  description # <<>> /\ quantity # <<"0">> /\ unit_price # ZeroPrice /\ cost # ZeroPrice

\* float(p) of a normalised price, in hundredths
to_cents(p) ==
  (CHOOSE val \in {LET n == py_int(v.ip \o SubSeq(v.fp \o <<"0", "0">>, 1, 2))
       IN IF v.neg THEN 0 - n ELSE n
       : v \in {py_float(p)}} : TRUE)

RECURSIVE sum_cost_from(_, _)
sum_cost_from(items, k) ==
  IF k > Len(items) THEN 0
  ELSE to_cents(items[k].cost) + sum_cost_from(items, k + 1)

sum_cost(items) == (CHOOSE val \in {sum_cost_from(its, 1) : its \in {items}} : TRUE)

RECURSIVE sum_qty_from(_, _)
sum_qty_from(items, k) ==
  IF k > Len(items) THEN 0
  ELSE py_int(items[k].quantity) + sum_qty_from(items, k + 1)

sum_qty(items) == (CHOOSE val \in {sum_qty_from(its, 1) : its \in {items}} : TRUE)

Abs(n) == IF n < 0 THEN 0 - n ELSE n

two_digits(n) == <<DigitSeq[(n \div 10) + 1], DigitSeq[(n % 10) + 1]>>

\* f"{total:.2f}" of a sum of hundredths.  The sum is exact here; the doubles
\* the program adds are within a rounding error of it, far below half a cent.
format_cents(c) ==
  (CHOOSE val \in {(IF k < 0 THEN <<"-">> ELSE <<>>)
       \o py_str(Abs(k) \div 100) \o <<".">> \o two_digits(Abs(k) % 100)
       : k \in {c}} : TRUE)

\* format_ratio without the rounding: the quotient cut after two decimals
format_ratio_floor(c, qty, half_up) ==
  (CHOOSE val \in {(IF c < 0 THEN <<"-">> ELSE <<>>)
       \o py_str(h \div 100) \o <<".">> \o two_digits(h % 100)
       : h \in {Abs(c) \div qty}} : TRUE)

\* f"{total_cost / total_qty:.2f}", total_qty > 0: the quotient to the nearest
\* hundredth; an exact half goes the way the double falls (half_up)
format_ratio(c, qty, half_up) ==
  (CHOOSE val \in {(IF c < 0 THEN <<"-">> ELSE <<>>)
       \o py_str(h \div 100) \o <<".">> \o two_digits(h % 100)
       : h \in {LET n == Abs(c)
                    q == n \div qty
                    r == n % qty
                    up == 2 * r > qty \/ (2 * r = qty /\ half_up)
                IN IF up THEN q + 1 ELSE q}} : TRUE)

\* quote_group counting the items instead of adding their quantities
quote_group_count(items, half_up) ==
  (CHOOSE val \in {[quantity |-> py_str(total_qty),
        unitPrice |-> IF total_qty > 0
                      THEN format_ratio(total_cost, total_qty, half_up)
                      ELSE ZeroPrice,
        totalPrice |-> format_cents(total_cost),
        lineItems |-> items]
       : total_cost \in {sum_cost(items)}, total_qty \in {Len(items)}} : TRUE)

\* one group of the result: lines 229-238, 322-331 and 351-362
quote_group(items, half_up) ==
  (CHOOSE val \in {[quantity |-> py_str(total_qty),
        unitPrice |-> IF total_qty > 0
                      THEN format_ratio(total_cost, total_qty, half_up)
                      ELSE ZeroPrice,
        totalPrice |-> format_cents(total_cost),
        lineItems |-> items]
       : total_cost \in {sum_cost(items)}, total_qty \in {sum_qty(items)}} : TRUE)

\* quote_groups[quantity].append(item) on a defaultdict(list): the dict as
\* the sequence of its (key, items) entries in insertion order
dict_append(groups, key, item) ==
  (CHOOSE val \in {IF \E i \in 1..Len(gs) : gs[i].key = key
       THEN [i \in 1..Len(gs) |->
               IF gs[i].key = key
               THEN [gs[i] EXCEPT !.items = Append(@, item)] ELSE gs[i]] \o <<>>
       ELSE Append(gs, [key |-> key, items |-> <<item>>])
       : gs \in {groups}} : TRUE)

\* sorted(entries, key=lambda x: int(x)): stable, ascending
RECURSIVE sorted_by_int(_)
sorted_by_int(groups) ==
  (CHOOSE val \in {IF gs = <<>> THEN <<>>
       ELSE (CHOOSE val \in {<<gs[least]>> \o
                 sorted_by_int([j \in 1..(Len(gs) - 1) |->
                                  IF j < least THEN gs[j] ELSE gs[j + 1]] \o <<>>)
                 : least \in {CHOOSE i \in 1..Len(gs) :
                      /\ \A j \in 1..Len(gs) : py_int(gs[i].key) <= py_int(gs[j].key)
                      /\ \A j \in 1..(i - 1) : py_int(gs[j].key) > py_int(gs[i].key)}} : TRUE)
       : gs \in {groups}} : TRUE)

format_quote_groups(quote_groups, half_up) ==
  (CHOOSE val \in {[i \in 1..Len(sorted_quantities) |->
          quote_group(sorted_quantities[i].items, half_up)] \o <<>>
       : sorted_quantities \in {sorted_by_int(quote_groups)}} : TRUE)

(***************************************************************************)
(* Inputs                                                                  *)
(***************************************************************************)
MaxRows == 3
MaxTokenLen == 3

\* sequences over S of length at most n
RECURSIVE SeqsUpTo(_, _)
SeqsUpTo(S, n) ==
  IF n = 0 THEN {<<>>}
  ELSE LET shorter == SeqsUpTo(S, n - 1)
       IN shorter \cup {Append(b, x) : b \in {c \in shorter : Len(c) = n - 1}, x \in S}

VtnBanner == <<"V", "T", "N", " ", "M", "A", "N", "U", "F", "A", "C", "T", "U", "R", "I", "N", "G">>
Scenario1Line == <<"1", "0", " ", "A", "B", "C", "1", "2", "3", " ", "W", "i", "d", "g", "e", "t", " ", "A", " ", "1", "2", ".", "5", "0", " ", "1", "2", "5", ".", "0", "0">>
SematoolBanner == <<"S", "e", "m", "a", "t", "o", "o", "l", " ", "P", "r", "i", "c", "e">>
Scenario2Header == <<"I", "t", "e", "m", " ", "D", "e", "s", "c", "r", "i", "p", "t", "i", "o", "n", " ", "Q", "u", "a", "n", "t", "i", "t", "y", " ", "P", "r", "i", "c", "e", " ", "A", "m", "o", "u", "n", "t">>
Scenario2Row == <<"1", " ", "B", "r", "a", "c", "k", "e", "t", " ", "5", " ", "$", "3", ".", "0", "0", " ", "$", "1", "5", ".", "0", "0">>
Scenario2Total == <<"T", "o", "t", "a", "l", ":", " ", "$", "1", "5", ".", "0", "0">>
ThirtyTwoBanner == <<"T", "h", "i", "r", "t", "y", "-", "T", "w", "o", " ", "M", "a", "c", "h", "i", "n", "e">>
ThirtyTwoDesignHeader == <<"3", "2", " ", "M", "a", "c", "h", "i", "n", "e", "+", "D", "e", "s", "i", "g", "n", " ", "D", "e", "s", "c", "r", "i", "p", "t", "i", "o", "n", " ", "Q", "t", "y", " ", "R", "a", "t", "e", " ", "T", "o", "t", "a", "l">>
ThirtyTwoHeader == <<"D", "e", "s", "c", "r", "i", "p", "t", "i", "o", "n", " ", "Q", "t", "y", " ", "R", "a", "t", "e", " ", "T", "o", "t", "a", "l">>

\* Documents are a head (banner and header lines) followed by at most MaxRows
\* rows, in the layouts the three strategies are written for and in one that
\* mixes the vendor keywords.
VtnLayout ==
  [heads |-> {<<>>, <<VtnBanner>>},
   rows |-> {Scenario1Line, <<"1", "0", " ", "W", "i", "d", "g", "e", "t", " ", "1", ".", "5">>, <<"8", " ", "B", "o", "l", "t", " ", "2", ".", "5">>, <<"0", "8", " ", "N", "u", "t", " ", "1", ".", "5">>, <<"0", "0", " ", "P", "i", "n", " ", "1", ".", "5">>,
            <<"2", "0", "0", "0", "0", " ", "P", "i", "n", " ", "1", ".", "5">>}]

SematoolLayout ==
  [heads |-> {<<>>, <<Scenario2Header>>, <<SematoolBanner>>},
   rows |-> {Scenario2Row, Scenario2Total, <<"B", "r", "a", "c", "k", "e", "t", " ", "7", " ", "3", " ", "4">>,
             <<"N", "u", "t", " ", "1", ",", "2", " ", "3", " ", "4">>, <<"P", "i", "n", " ", "0", "0", "7", " ", "3", " ", "4">>,
             <<"C", "l", "i", "p", " ", "2", " ", "3", " ", "-", "4">>}]

ThirtyTwoLayout ==
  [heads |-> {<<>>, <<ThirtyTwoHeader>>, <<ThirtyTwoBanner, ThirtyTwoHeader>>},
   rows |-> {<<"C", "u", "s", "t", "o", "m", " ", "B", "r", "a", "c", "k", "e", "t", ",">>, <<"5", ",", " ", "1", "0", ".", "0", "0", ",", " ", "5", "0", ".", "0", "0">>, <<"B", " ", "3", ",", " ", "1", ".", "0", "0", ",", " ", "3", ".", "0", "0">>,
             <<"C", "a", "p", " ", "0", "0", ",", " ", "1", ".", "5", "0", ",", " ", "3", ".", "0", "0">>, <<"T", "o", "t", "a", "l", " ", "5">>}]

MixedLayout ==
  [heads |-> {<<>>},
   rows |-> {VtnBanner, SematoolBanner, ThirtyTwoDesignHeader,
             <<"1", "0", " ", "W", "i", "d", "g", "e", "t", " ", "1", ".", "5">>, <<"B", " ", "3", ",", " ", "1", ".", "0", "0", ",", " ", "3", ".", "0", "0">>}]

Layouts == {VtnLayout, SematoolLayout, ThirtyTwoLayout, MixedLayout}

\* every line that occurs in a document
Lines == UNION {UNION {Range(h) : h \in L.heads} \cup L.rows : L \in Layouts}

Documents ==
  UNION {{h \o b : h \in L.heads, b \in SeqsUpTo(L.rows, MaxRows)} : L \in Layouts}

\* price tokens: every text of at most MaxTokenLen characters over
\* TokenAlphabet, and the tokens the documentation names
TokenAlphabet == {"$", " ", ",", "-", ".", "1", "5", "n", "a"}

NamedTokens ==
  {<<"$", "2", ",", "0", "0", "0", ".", "0", "0">>, <<" ", "€", " ", "1", "2", "3", "4", " ">>, <<"-", "$", "5", ".", "5", "0">>, <<"a", "b", "c">>, <<>>}

Tokens == SeqsUpTo(TokenAlphabet, MaxTokenLen) \cup NamedTokens

(***************************************************************************)
(* Strategy A: parse_vtn_format                                            *)
(***************************************************************************)
VtnSkipWords ==
  {<<"T", "O", "T", "A", "L">>, <<"S", "U", "B", "T", "O", "T", "A", "L">>, <<"M", "O", "Q">>, <<"I", "T", "E", "M", " ", "C", "O", "D", "E">>,
   <<"D", "E", "S", "C", "R", "I", "P", "T", "I", "O", "N">>, <<"U", "N", "I", "T", " ", "P", "R", "I", "C", "E">>,
   <<"A", "M", "O", "U", "N", "T">>, <<"Q", "U", "O", "T", "E">>}

QtyLimit == 10000

\* ^\s*(\d+)\s+
VtnQtyRe ==
  ReCat(<<ReBol, ReStar(ReSet(Space)), ReGroup(RePlus(ReSet(Digit))),
          RePlus(ReSet(Space))>>)

\* -?\$?[\d,]+\.?\d*
RawPriceRe ==
  ReCat(<<ReOpt(ReChr("-")), ReOpt(ReChr("$")), RePlus(ReSet(DigitOrComma)),
          ReOpt(ReChr(".")), ReStar(ReSet(Digit))>>)

CodeCh == UpperCh \cup Digit \cup {"-"}

\* ^[A-Z0-9-]+(?:\sREV\s[A-Z0-9]+)?(?:\s[A-Z0-9-]+)?\s+
ItemCodeRe ==
  ReCat(<<ReBol, RePlus(ReSet(CodeCh)),
          ReOpt(ReCat(<<ReSet(Space), ReLit(<<"R", "E", "V">>), ReSet(Space),
                        RePlus(ReSet(UpperCh \cup Digit))>>)),
          ReOpt(ReCat(<<ReSet(Space), RePlus(ReSet(CodeCh))>>)),
          RePlus(ReSet(Space))>>)

\* The loop of lines 105-112.  Its two branches call re.rsplit, which the re
\* module does not have: the call raises AttributeError, and the handler of
\* line 130 drops the line.  temp_line is therefore never shortened.
RECURSIVE vtn_remove_prices(_, _, _, _)
vtn_remove_prices(temp_line, line_prices, k, half_up) ==
  IF k = 0 THEN [raised |-> FALSE, text |-> temp_line]
  ELSE
    (CHOOSE val \in {LET p_val == line_prices[k]
             n == Len(raw)
         IN IF n >= 1 /\ normalize_price(raw[n], half_up) = p_val
            THEN [raised |-> TRUE]
            ELSE IF n >= 2 /\ normalize_price(raw[n - 1], half_up) = p_val
            THEN [raised |-> TRUE]
            ELSE vtn_remove_prices(temp_line, line_prices, k - 1, half_up)
         : raw \in {re_findall(RawPriceRe, temp_line)}} : TRUE)

\* lines 83-129, for a line with two prices or more and a leading quantity
vtn_item(line, line_prices, qty_match, half_up) ==
  LET n == Len(line_prices)
      cost == line_prices[n]
      unit_price == line_prices[n - 1]
      qty_candidate == Slice(line, qty_match.caps[1][1], qty_match.caps[1][2])
      quantity == IF py_int(qty_candidate) <= QtyLimit THEN qty_candidate ELSE <<"1">>
  IN (CHOOSE val \in {(CHOOSE val \in {IF removed.raised THEN <<>>
               ELSE (CHOOSE val \in {IF accepted(description, quantity, unit_price, cost)
                         THEN <<Item(description, quantity, unit_price, cost)>>
                         ELSE <<>>
                         : description \in
                             {strip(re_sub_empty(ItemCodeRe, strip(removed.text), 0))}} : TRUE)
               : removed \in {vtn_remove_prices(temp_line, line_prices, n, half_up)}} : TRUE)
          : temp_line \in {strip(Slice(line, qty_match.end, Len(line)))}} : TRUE)

\* one iteration of the loop of line 71: the items the line adds (none or one)
vtn_line(raw_line, half_up) ==
  (CHOOSE val \in {IF line = <<>> \/ str_upper(line) \in VtnSkipWords THEN <<>>
       ELSE (CHOOSE val \in {IF Len(line_prices) < 2 THEN <<>>
                 ELSE (CHOOSE val \in {IF ~qty_match.found THEN <<>>
                           ELSE vtn_item(line, line_prices, qty_match, half_up)
                           : qty_match \in {re_match_at(VtnQtyRe, line, 0)}} : TRUE)
                 : line_prices \in {extract_prices_from_line(line, half_up)}} : TRUE)
       : line \in {strip(raw_line)}} : TRUE)

\* vtn_line of every line of the documents, as a table (f @@ <<>> is f,
\* written out)
vtn_line_of == [l \in Lines, h \in BOOLEAN |-> vtn_line(l, h)] @@ <<>>

RECURSIVE vtn_groups(_, _, _, _)
vtn_groups(ls, i, quote_groups, half_up) ==
  IF i > Len(ls) THEN quote_groups
  ELSE (CHOOSE val \in {(CHOOSE val \in {vtn_groups(ls, i + 1, next, half_up)
                 : next \in {IF new = <<>> THEN quote_groups
                             ELSE dict_append(quote_groups, new[1].quantity, new[1])}} : TRUE)
            : new \in {vtn_line_of[ls[i], half_up]}} : TRUE)

parse_vtn_format(ls, half_up) ==
  format_quote_groups(vtn_groups(ls, 1, <<>>, half_up), half_up)

(***************************************************************************)
(* Strategy B: parse_sematool_format                                       *)
(***************************************************************************)
SematoolHeaders ==
  <<<<"i", "t", "e", "m">>, <<"d", "e", "s", "c", "r", "i", "p", "t", "i", "o", "n">>, <<"q", "u", "a", "n", "t", "i", "t", "y">>,
    <<"p", "r", "i", "c", "e">>, <<"a", "m", "o", "u", "n", "t">>>>

\* any(header in line.lower() for header in [...])
is_sematool_header(line) ==
  \E low \in {str_lower(line)} :
    \E k \in DOMAIN SematoolHeaders : Contains(low, SematoolHeaders[k])

\* enumerate(lines) up to the break: the index (from 1) of the first line
\* among hits, the indices of the lines passing the header test, or 0 when
\* the loop ends without one
first_line(hits) ==
  IF hits = {} THEN 0 ELSE CHOOSE i \in hits : \A j \in hits : i <= j

\* \b(\d+)\b
StandaloneIntRe == ReCat(<<ReWordB, ReGroup(RePlus(ReSet(Digit))), ReWordB>>)

\* ^\s*\d+\s*
LeadingIntRe ==
  ReCat(<<ReBol, ReStar(ReSet(Space)), RePlus(ReSet(Digit)), ReStar(ReSet(Space))>>)

\* \s*/EA|\s*/EACH under re.IGNORECASE
UnitMarkerRe ==
  ReAlt(<<ReCat(<<ReStar(ReSet(Space)), ReILit(<<"/", "E", "A">>)>>),
          ReCat(<<ReStar(ReSet(Space)), ReILit(<<"/", "E", "A", "C", "H">>)>>)>>)

\* p_val.replace('.00', '')
price_digits(p_val) == replace(p_val, <<".", "0", "0">>, <<>>)

\* lines 180-183: cut the first occurrence of each price's digits out of the
\* line, price by price
RECURSIVE cut_prices(_, _, _)
cut_prices(temp_line, line_prices, k) ==
  IF k > Len(line_prices) THEN temp_line
  ELSE (CHOOSE val \in {(CHOOSE val \in {cut_prices(next, line_prices, k + 1)
                 : next \in {IF raw_price_match.found
                             THEN Slice(temp_line, 0, raw_price_match.start)
                                  \o Slice(temp_line, raw_price_match.end,
                                           Len(temp_line))
                             ELSE temp_line}} : TRUE)
            : raw_price_match \in
                {re_search(ReLit(price_digits(line_prices[k])), temp_line)}} : TRUE)

\* lines 195-201: re.sub of each price's digits, IGNORECASE, count=1
RECURSIVE sub_prices(_, _, _)
sub_prices(temp_line, line_prices, k) ==
  IF k > Len(line_prices) THEN temp_line
  ELSE (CHOOSE val \in {sub_prices(next, line_prices, k + 1)
            : next \in {re_sub_empty(ReILit(price_digits(line_prices[k])), temp_line, 1)}} : TRUE)

\* lines 175-189: the last standalone integer left once the prices are cut
\* out, when it is not above the limit; "1" otherwise
sematool_quantity(line, line_prices) ==
  (CHOOSE val \in {LET qty_candidate == potential_quantities[Len(potential_quantities)]
       IN IF potential_quantities # <<>> /\ py_int(qty_candidate) <= QtyLimit
          THEN qty_candidate ELSE <<"1">>
       : potential_quantities \in
           {re_findall_group(StandaloneIntRe, cut_prices(line, line_prices, 1))}} : TRUE)

\* lines 192-212: the line without its prices, its quantity, its leading
\* item number and its unit markers
sematool_description(line, line_prices, quantity) ==
  (CHOOSE val \in {(CHOOSE val \in {(CHOOSE val \in {strip(re_sub_empty(UnitMarkerRe, strip(temp3), 0))
                 : temp3 \in {re_sub_empty(LeadingIntRe, temp2, 1)}} : TRUE)
            : temp2 \in {re_sub_empty(ReCat(<<ReWordB, ReLit(quantity), ReWordB>>),
                                      temp1, 1)}} : TRUE)
       : temp1 \in {sub_prices(line, line_prices, 1)}} : TRUE)

\* one data row (lines 165-224): the items it adds (none or one)
sematool_row(line, half_up) ==
  (CHOOSE val \in {IF Len(line_prices) < 2 THEN <<>>
       ELSE LET n == Len(line_prices)
                cost == line_prices[n]
                unit_price == line_prices[n - 1]
            IN (CHOOSE val \in {(CHOOSE val \in {IF accepted(description, quantity, unit_price, cost)
                         THEN <<Item(description, quantity, unit_price, cost)>>
                         ELSE <<>>
                         : description \in
                             {sematool_description(line, line_prices, quantity)}} : TRUE)
                    : quantity \in {sematool_quantity(line, line_prices)}} : TRUE)
       : line_prices \in {extract_prices_from_line(line, half_up)}} : TRUE)

\* one iteration of the loop of line 157: whether the line is skipped as
\* blank, whether it ends the table, and the items it adds otherwise; header
\* is the test of line 149 on the same line
sematool_line(raw_line, half_up) ==
  (CHOOSE val \in {(CHOOSE val \in {[header |-> is_sematool_header(raw_line),
             blank |-> line = <<>>,
             stop |-> stop,
             items |-> IF line = <<>> \/ stop THEN <<>>
                       ELSE sematool_row(line, half_up)]
            : stop \in {line # <<>> /\
                        Contains(str_lower(line), <<"t", "o", "t", "a", "l", ":">>)}} : TRUE)
       : line \in {strip(raw_line)}} : TRUE)

\* sematool_line of every line of the documents, as a table
sematool_line_of ==
  [l \in Lines, h \in BOOLEAN |-> sematool_line(l, h)] @@ <<>>

\* the loop of line 157 from line i on
RECURSIVE sematool_items(_, _, _, _)
sematool_items(ls, i, items, half_up) ==
  IF i > Len(ls) THEN items
  ELSE (CHOOSE val \in {IF row.blank THEN sematool_items(ls, i + 1, items, half_up)
            ELSE IF row.stop THEN items
            ELSE (CHOOSE val \in {sematool_items(ls, i + 1, next, half_up)
                      : next \in {items \o row.items}} : TRUE)
            : row \in {sematool_line_of[ls[i], half_up]}} : TRUE)

parse_sematool_format(ls, half_up) ==
  (CHOOSE val \in {IF header_line_index = 0 THEN <<>>
       ELSE (CHOOSE val \in {IF items # <<>> THEN <<quote_group(items, half_up)>> ELSE <<>>
                 : items \in {sematool_items(ls, header_line_index + 1, <<>>, half_up)}} : TRUE)
       : header_line_index \in
           {first_line({i \in 1..Len(ls) : sematool_line_of[ls[i], half_up].header})}} : TRUE)

(***************************************************************************)
(* Strategy C: parse_thirtytwo_machine_format                              *)
(***************************************************************************)
ThirtyTwoHeaders ==
  <<<<"d", "e", "s", "c", "r", "i", "p", "t", "i", "o", "n">>, <<"q", "t", "y">>, <<"r", "a", "t", "e">>, <<"t", "o", "t", "a", "l">>>>

\* all(h in line.lower() for h in [...])
is_thirtytwo_header(line) ==
  \E low \in {str_lower(line)} :
    \A k \in DOMAIN ThirtyTwoHeaders : Contains(low, ThirtyTwoHeaders[k])

Quote == "\""

\* [\-]?\$?[\d,]+\.?\d*
EndPriceRe ==
  ReCat(<<ReOpt(ReChr("-")), ReOpt(ReChr("$")), RePlus(ReSet(DigitOrComma)),
          ReOpt(ReChr(".")), ReStar(ReSet(Digit))>>)

\* (\d+)\s*"?,\s*"?([\-]?\$?[\d,]+\.?\d*)"?,\s*"?([\-]?\$?[\d,]+\.?\d*)"?\s*$
line_item_end_pattern ==
  ReCat(<<ReGroup(RePlus(ReSet(Digit))), ReStar(ReSet(Space)), ReOpt(ReChr(Quote)),
          ReChr(","), ReStar(ReSet(Space)), ReOpt(ReChr(Quote)),
          ReGroup(EndPriceRe), ReOpt(ReChr(Quote)),
          ReChr(","), ReStar(ReSet(Space)), ReOpt(ReChr(Quote)),
          ReGroup(EndPriceRe), ReOpt(ReChr(Quote)), ReStar(ReSet(Space)), ReEol>>)

\* [\$]?[\d,]+\.\d{2}
TotalPriceReA ==
  ReCat(<<ReOpt(ReChr("$")), RePlus(ReSet(DigitOrComma)), ReChr("."),
          ReSet(Digit), ReSet(Digit)>>)

\* [\$]?[\d,]+
TotalPriceReB == ReCat(<<ReOpt(ReChr("$")), RePlus(ReSet(DigitOrComma))>>)

\* ^"|"$
WrapQuoteRe == ReAlt(<<ReCat(<<ReBol, ReChr(Quote)>>), ReCat(<<ReChr(Quote), ReEol>>)>>)

\* ,\s*$
TrailingCommaRe == ReCat(<<ReChr(","), ReStar(ReSet(Space)), ReEol>>)

\* line 273
is_total_line(line) ==
  /\ Contains(str_lower(line), <<"t", "o", "t", "a", "l">>)
  /\ (re_search(TotalPriceReA, line).found \/ re_search(TotalPriceReB, line).found)

\* lines 288-298: the buffered description lines and the text before the
\* match, joined, without wrapping quotes and trailing comma
thirtytwo_description(line, match, current_item_description_lines) ==
  (CHOOSE val \in {LET buffer == IF description_on_current_line # <<>>
                     THEN Append(current_item_description_lines,
                                 description_on_current_line)
                     ELSE current_item_description_lines
       IN (CHOOSE val \in {strip(re_sub_empty(TrailingCommaRe, unquoted, 0))
               : unquoted \in
                   {strip(re_sub_empty(WrapQuoteRe, strip(join(<<" ">>, buffer)), 0))}} : TRUE)
       : description_on_current_line \in {strip(Slice(line, 0, match.start))}} : TRUE)

\* lines 280-310 for a line the closing pattern matches: the item, if it is
\* accepted
thirtytwo_close(line, match, current_item_description_lines, half_up) ==
  (CHOOSE val \in {IF accepted(description, quantity, unit_price, cost)
       THEN <<Item(description, quantity, unit_price, cost)>>
       ELSE <<>>
       : quantity \in {Slice(line, match.caps[1][1], match.caps[1][2])},
         unit_price \in
           {normalize_price(Slice(line, match.caps[2][1], match.caps[2][2]), half_up)},
         cost \in
           {normalize_price(Slice(line, match.caps[3][1], match.caps[3][2]), half_up)},
         description \in
           {thirtytwo_description(line, match, current_item_description_lines)}} : TRUE)

\* what one iteration of the loop of line 267 reads off the line: the
\* stripped line, whether it is blank, whether it is the total line, and the
\* closing pattern's match; header is the test of line 255 on the same line
thirtytwo_line(raw_line) ==
  (CHOOSE val \in {[header |-> is_thirtytwo_header(raw_line),
        line |-> line,
        blank |-> line = <<>>,
        total |-> line # <<>> /\ is_total_line(line),
        match |-> re_search(line_item_end_pattern, line)]
       : line \in {strip(raw_line)}} : TRUE)

\* thirtytwo_line of every line of the documents, as a table
thirtytwo_line_of == [l \in Lines |-> thirtytwo_line(l)] @@ <<>>

\* the loop of line 267 from line i on: the defaultdict after the last line
RECURSIVE thirtytwo_groups(_, _, _, _, _)
thirtytwo_groups(ls, i, quote_groups, current_item_description_lines, half_up) ==
  IF i > Len(ls) THEN quote_groups
  ELSE
    (CHOOSE val \in {IF row.blank
         THEN thirtytwo_groups(ls, i + 1, quote_groups,
                               current_item_description_lines, half_up)
         ELSE IF row.total THEN quote_groups
         ELSE IF row.match.found
         THEN (CHOOSE val \in {(CHOOSE val \in {thirtytwo_groups(ls, i + 1, next, <<>>, half_up)
                        : next \in
                            {IF new = <<>> THEN quote_groups
                             ELSE dict_append(quote_groups, new[1].quantity, new[1])}} : TRUE)
                   : new \in {thirtytwo_close(row.line, row.match,
                                              current_item_description_lines, half_up)}} : TRUE)
         ELSE (CHOOSE val \in {thirtytwo_groups(ls, i + 1, quote_groups, buffer, half_up)
                   : buffer \in {Append(current_item_description_lines, row.line)}} : TRUE)
         : row \in {thirtytwo_line_of[ls[i]]}} : TRUE)

\* lines 317-319: all_items.extend(...) over quote_groups.values()
RECURSIVE dict_values_from(_, _)
dict_values_from(groups, k) ==
  IF k > Len(groups) THEN <<>>
  ELSE groups[k].items \o dict_values_from(groups, k + 1)

dict_values_concat(groups) == (CHOOSE val \in {dict_values_from(gs, 1) : gs \in {groups}} : TRUE)

parse_thirtytwo_machine_format(ls, half_up) ==
  (CHOOSE val \in {IF header_line_index = 0 THEN <<>>
       ELSE (CHOOSE val \in {IF all_items # <<>> THEN <<quote_group(all_items, half_up)>> ELSE <<>>
                 : all_items \in
                     {dict_values_concat(
                        thirtytwo_groups(ls, header_line_index + 1, <<>>, <<>>, half_up))}} : TRUE)
       : header_line_index \in
           {first_line({i \in 1..Len(ls) : thirtytwo_line_of[ls[i]].header})}} : TRUE)

(***************************************************************************)
(* detect_format_and_parse, process_single_pdf                             *)
(***************************************************************************)
KeywordVtn == <<"V", "T", "N", " ", "M", "A", "N", "U", "F", "A", "C", "T", "U", "R", "I", "N", "G">>
KeywordSematool == <<"S", "E", "M", "A", "T", "O", "O", "L">>
KeywordThirtyTwo == <<"T", "H", "I", "R", "T", "Y", "-", "T", "W", "O", " ", "M", "A", "C", "H", "I", "N", "E">>
KeywordThirtyTwoDesign == <<"3", "2", " ", "M", "A", "C", "H", "I", "N", "E", "+", "D", "E", "S", "I", "G", "N">>

\* detect_format_and_parse testing the SEMATOOL keyword before the VTN one
detect_sematool_first(ls, half_up) ==
  (CHOOSE val \in {IF Contains(text_content, KeywordSematool)
       THEN [result |-> parse_sematool_format(ls, half_up), ran |-> <<"B">>]
       ELSE IF Contains(text_content, KeywordVtn)
       THEN [result |-> parse_vtn_format(ls, half_up), ran |-> <<"A">>]
       ELSE IF Contains(text_content, KeywordThirtyTwo)
               \/ Contains(text_content, KeywordThirtyTwoDesign)
       THEN [result |-> parse_thirtytwo_machine_format(ls, half_up), ran |-> <<"C">>]
       ELSE (CHOOSE val \in {IF a # <<>> THEN [result |-> a, ran |-> <<"A">>]
                 ELSE (CHOOSE val \in {IF b # <<>> THEN [result |-> b, ran |-> <<"A", "B">>]
                           ELSE [result |-> parse_thirtytwo_machine_format(ls, half_up),
                                 ran |-> <<"A", "B", "C">>]
                           : b \in {parse_sematool_format(ls, half_up)}} : TRUE)
                 : a \in {parse_vtn_format(ls, half_up)}} : TRUE)
       : text_content \in {str_upper(join(<<" ">>, ls))}} : TRUE)

\* detect_format_and_parse whose fallback chain stops after Strategy B
detect_stop_after_b(ls, half_up) ==
  (CHOOSE val \in {IF Contains(text_content, KeywordVtn)
       THEN [result |-> parse_vtn_format(ls, half_up), ran |-> <<"A">>]
       ELSE IF Contains(text_content, KeywordSematool)
       THEN [result |-> parse_sematool_format(ls, half_up), ran |-> <<"B">>]
       ELSE IF Contains(text_content, KeywordThirtyTwo)
               \/ Contains(text_content, KeywordThirtyTwoDesign)
       THEN [result |-> parse_thirtytwo_machine_format(ls, half_up), ran |-> <<"C">>]
       ELSE (CHOOSE val \in {IF a # <<>> THEN [result |-> a, ran |-> <<"A">>]
                 ELSE [result |-> parse_sematool_format(ls, half_up),
                       ran |-> <<"A", "B">>]
                 : a \in {parse_vtn_format(ls, half_up)}} : TRUE)
       : text_content \in {str_upper(join(<<" ">>, ls))}} : TRUE)

\* The value returned (result) and the strategies called, in call order (ran).
detect_format_and_parse(ls, half_up) ==
  (CHOOSE val \in {IF Contains(text_content, KeywordVtn)
       THEN [result |-> parse_vtn_format(ls, half_up), ran |-> <<"A">>]
       ELSE IF Contains(text_content, KeywordSematool)
       THEN [result |-> parse_sematool_format(ls, half_up), ran |-> <<"B">>]
       ELSE IF Contains(text_content, KeywordThirtyTwo)
               \/ Contains(text_content, KeywordThirtyTwoDesign)
       THEN [result |-> parse_thirtytwo_machine_format(ls, half_up), ran |-> <<"C">>]
       ELSE (CHOOSE val \in {IF a # <<>> THEN [result |-> a, ran |-> <<"A">>]
                 ELSE (CHOOSE val \in {IF b # <<>> THEN [result |-> b, ran |-> <<"A", "B">>]
                           ELSE [result |-> parse_thirtytwo_machine_format(ls, half_up),
                                 ran |-> <<"A", "B", "C">>]
                           : b \in {parse_sematool_format(ls, half_up)}} : TRUE)
                 : a \in {parse_vtn_format(ls, half_up)}} : TRUE)
       : text_content \in {str_upper(join(<<" ">>, ls))}} : TRUE)

None == "None"
ErrFileNotFound == "File not found"
ErrNoText == "Could not extract text from PDF"
ErrNoQuotes == "No quote data could be extracted"

\* process_single_pdf reporting success whenever the text was extracted
process_always_success(pdf_path, exists, extraction_success, extracted, half_up) ==
  LET result == [file |-> pdf_path, success |-> FALSE, error |-> None, quotes |-> <<>>]
  IN IF ~exists
     THEN [result |-> [result EXCEPT !.error = ErrFileNotFound], ran |-> <<>>]
     ELSE IF ~extraction_success
     THEN [result |-> [result EXCEPT !.error = ErrNoText], ran |-> <<>>]
     ELSE (CHOOSE val \in {[result |-> [result EXCEPT !.success = TRUE, !.quotes = detected.result],
                ran |-> detected.ran]
               : detected \in {detect_format_and_parse(extracted, half_up)}} : TRUE)

\* exists: os.path.exists(pdf_path); extraction_success and extracted: what
\* extract_text_from_pdf returns for the file.  The value returned (result)
\* and the strategies called on the way, in call order (ran).
process_single_pdf(pdf_path, exists, extraction_success, extracted, half_up) ==
  LET result == [file |-> pdf_path, success |-> FALSE, error |-> None, quotes |-> <<>>]
  IN IF ~exists
     THEN [result |-> [result EXCEPT !.error = ErrFileNotFound], ran |-> <<>>]
     ELSE IF ~extraction_success
     THEN [result |-> [result EXCEPT !.error = ErrNoText], ran |-> <<>>]
     ELSE (CHOOSE val \in {IF parsed_data.result = <<>>
               THEN [result |-> [result EXCEPT !.error = ErrNoQuotes],
                     ran |-> parsed_data.ran]
               ELSE [result |-> [result EXCEPT !.success = TRUE,
                                               !.quotes = parsed_data.result],
                     ran |-> parsed_data.ran]
               : parsed_data \in {detect_format_and_parse(extracted, half_up)}} : TRUE)

\* the path handed to process_single_pdf
PdfPath == "quote.pdf"

(***************************************************************************)
(* The program as a state machine: one call per run                        *)
(***************************************************************************)
NoEnv == [half_up |-> FALSE]

Init ==
  /\ lines \in Documents
  /\ price_str = <<>>
  /\ env = NoEnv
  /\ call = "none"
  /\ ret = <<>>
  /\ ran = <<>>

CallParseVtn ==
  /\ call = "none"
  /\ \E h \in BOOLEAN :
       /\ env' = [half_up |-> h]
       /\ ret' = parse_vtn_format(lines, h)
  /\ call' = "parse_vtn_format"
  /\ UNCHANGED <<lines, price_str, ran>>

CallParseSematool ==
  /\ call = "none"
  /\ \E h \in BOOLEAN :
       /\ env' = [half_up |-> h]
       /\ ret' = parse_sematool_format(lines, h)
  /\ call' = "parse_sematool_format"
  /\ UNCHANGED <<lines, price_str, ran>>

CallParseThirtyTwo ==
  /\ call = "none"
  /\ \E h \in BOOLEAN :
       /\ env' = [half_up |-> h]
       /\ ret' = parse_thirtytwo_machine_format(lines, h)
  /\ call' = "parse_thirtytwo_machine_format"
  /\ UNCHANGED <<lines, price_str, ran>>

CallDetect ==
  /\ call = "none"
  /\ \E h \in BOOLEAN :
       LET d == detect_format_and_parse(lines, h)
       IN /\ env' = [half_up |-> h]
          /\ ret' = d.result
          /\ ran' = d.ran
  /\ call' = "detect_format_and_parse"
  /\ UNCHANGED <<lines, price_str>>

CallProcess ==
  /\ call = "none"
  /\ \E h \in BOOLEAN, exists \in BOOLEAN, extraction_success \in BOOLEAN :
       LET p == process_single_pdf(PdfPath, exists, extraction_success, lines, h)
       IN /\ env' = [half_up |-> h, exists |-> exists,
                     extraction_success |-> extraction_success]
          /\ ret' = p.result
          /\ ran' = p.ran
  /\ call' = "process_single_pdf"
  /\ UNCHANGED <<lines, price_str>>

Next ==
  \/ CallParseVtn
  \/ CallParseSematool
  \/ CallParseThirtyTwo
  \/ CallDetect
  \/ CallProcess

Spec == Init /\ [][Next]_vars

\* normalize_price on its own
PriceInit ==
  /\ lines = <<>>
  /\ price_str \in Tokens
  /\ env = NoEnv
  /\ call = "none"
  /\ ret = <<>>
  /\ ran = <<>>

CallNormalize ==
  /\ call = "none"
  /\ \E h \in BOOLEAN :
       /\ env' = [half_up |-> h]
       /\ ret' = normalize_price(price_str, h)
  /\ call' = "normalize_price"
  /\ UNCHANGED <<lines, price_str, ran>>

PriceNext == CallNormalize

PriceSpec == PriceInit /\ [][PriceNext]_vars

(***************************************************************************)
(* Properties                                                              *)
(***************************************************************************)
StrategyCalls ==
  {"parse_vtn_format", "parse_sematool_format", "parse_thirtytwo_machine_format"}

\* the groups a strategy call returned
StrategyGroups == IF call \in StrategyCalls THEN ret ELSE <<>>

\* every line item of the groups a strategy call returned
StrategyItems == UNION {Range(StrategyGroups[i].lineItems) : i \in DOMAIN StrategyGroups}

TextContent == str_upper(join(<<" ">>, lines))
HasVtn == Contains(TextContent, KeywordVtn)
HasSematool == Contains(TextContent, KeywordSematool)
HasThirtyTwo ==
  Contains(TextContent, KeywordThirtyTwo) \/ Contains(TextContent, KeywordThirtyTwoDesign)

\* C1: in every group a strategy returns, quantity is the integer sum of the
\* line items' quantities and totalPrice is the sum of their costs written
\* with two decimals.
C1_GroupTotals ==
  \A i \in DOMAIN StrategyGroups :
    LET g == StrategyGroups[i]
    IN /\ g.quantity = py_str(sum_qty(g.lineItems))
       /\ g.totalPrice = format_cents(sum_cost(g.lineItems))

\* a returned group of several items whose quantities and costs differ
C1_Witness ==
  \E i \in DOMAIN StrategyGroups :
    LET its == StrategyGroups[i].lineItems
    IN /\ Len(its) >= 2
       /\ \E j, k \in DOMAIN its :
            its[j].quantity # its[k].quantity /\ its[j].cost # its[k].cost

\* C2: in every group a strategy returns, unitPrice is totalPrice divided by
\* quantity, rounded to the nearest hundredth, when quantity is positive, and
\* "0.00" when quantity is 0.
C2_UnitPrice ==
  \A i \in DOMAIN StrategyGroups :
    LET g == StrategyGroups[i]
        q == py_int(g.quantity)
        total == to_cents(g.totalPrice)
        unit == to_cents(g.unitPrice)
    IN /\ q > 0 => 2 * Abs(unit * q - total) <= q
       /\ q = 0 => g.unitPrice = ZeroPrice

\* one result holding a group of quantity 0 and a group whose total does not
\* divide evenly by its quantity
C2_Witness ==
  /\ \E i \in DOMAIN StrategyGroups : py_int(StrategyGroups[i].quantity) = 0
  /\ \E i \in DOMAIN StrategyGroups :
       LET q == py_int(StrategyGroups[i].quantity)
       IN q > 0 /\ Abs(to_cents(StrategyGroups[i].totalPrice)) % q # 0

\* C3: no line item a strategy returns has an empty description, a quantity
\* of integer value 0, a unitPrice of value zero or a cost of value zero.
C3_NoSentinelItem ==
  \A it \in StrategyItems :
    /\ it.description # <<>>
    /\ py_int(it.quantity) > 0
    /\ to_cents(it.unitPrice) # 0
    /\ to_cents(it.cost) # 0

\* C4: when the text contains "VTN MANUFACTURING", detect_format_and_parse
\* returns Strategy A's result and runs nothing else, whatever other keyword
\* is present; with "SEMATOOL" and no "VTN MANUFACTURING" it returns Strategy
\* B's result and runs nothing else.
C4_DetectorPrecedence ==
  call = "detect_format_and_parse" =>
    /\ HasVtn =>
         ret = parse_vtn_format(lines, env.half_up) /\ ran = <<"A">>
    /\ (HasSematool /\ ~HasVtn) =>
         ret = parse_sematool_format(lines, env.half_up) /\ ran = <<"B">>

\* both keywords present, and Strategy B would have returned something else
C4_Witness ==
  /\ call = "detect_format_and_parse"
  /\ HasVtn /\ HasSematool
  /\ ret # <<>>
  /\ parse_sematool_format(lines, env.half_up) # <<>>
  /\ parse_sematool_format(lines, env.half_up) # ret

\* C5: without a vendor keyword, detect_format_and_parse runs A, then B only
\* if A returned no group, then C only if B returned none either, and returns
\* the first non-empty result in that order (empty when all three are).
C5_FallbackChain ==
  (call = "detect_format_and_parse" /\ ~HasVtn /\ ~HasSematool /\ ~HasThirtyTwo) =>
    LET a == parse_vtn_format(lines, env.half_up)
        b == parse_sematool_format(lines, env.half_up)
        c == parse_thirtytwo_machine_format(lines, env.half_up)
    IN /\ ran \in {<<"A">>, <<"A", "B">>, <<"A", "B", "C">>}
       /\ Len(ran) >= 2 <=> a = <<>>
       /\ Len(ran) = 3 <=> (a = <<>> /\ b = <<>>)
       /\ ret = IF a # <<>> THEN a ELSE IF b # <<>> THEN b ELSE c

\* no keyword, A and B returned nothing, C returned a group
C5_Witness ==
  /\ call = "detect_format_and_parse"
  /\ ~HasVtn /\ ~HasSematool /\ ~HasThirtyTwo
  /\ ran = <<"A", "B", "C">>
  /\ ret # <<>>

Scenario1Document == <<VtnBanner, Scenario1Line>>

Scenario1Group ==
  [quantity |-> <<"1", "0">>, unitPrice |-> <<"1", "2", ".", "5", "0">>, totalPrice |-> <<"1", "2", "5", ".", "0", "0">>,
   lineItems |-> <<Item(<<"W", "i", "d", "g", "e", "t", " ", "A">>, <<"1", "0">>, <<"1", "2", ".", "5", "0">>, <<"1", "2", "5", ".", "0", "0">>)>>]

\* C6: for the document "VTN MANUFACTURING", "10 ABC123 Widget A 12.50 125.00"
\* detect_format_and_parse returns exactly one group: quantity "10",
\* unitPrice "12.50", totalPrice "125.00", and the one line item Widget A.
C6_Scenario1 ==
  (call = "detect_format_and_parse" /\ lines = Scenario1Document) =>
    ret = <<Scenario1Group>>

Scenario2Document == <<Scenario2Header, Scenario2Row, Scenario2Total>>

\* C7: for the lines "Item Description Quantity Price Amount",
\* "1 Bracket 5 $3.00 $15.00", "Total: $15.00" the result is exactly one group
\* with quantity "5", unitPrice "3.00", totalPrice "15.00" and one line item.
C7_Scenario2 ==
  (call \in {"detect_format_and_parse", "parse_sematool_format"}
     /\ lines = Scenario2Document) =>
    /\ Len(ret) = 1
    /\ ret[1].quantity = <<"5">>
    /\ ret[1].unitPrice = <<"3", ".", "0", "0">>
    /\ ret[1].totalPrice = <<"1", "5", ".", "0", "0">>
    /\ Len(ret[1].lineItems) = 1

\* C8: process_single_pdf reports success exactly when quotes is non-empty,
\* an error exactly when it does not report success, the error being one of
\* the three kinds; when the text was extracted and the engine returns no
\* group, the outcome is success false, "No quote data could be extracted",
\* no quotes.
C8_Outcome ==
  call = "process_single_pdf" =>
    /\ ret.success <=> ret.quotes # <<>>
    /\ ret.error # None <=> ~ret.success
    /\ ret.error \in {None, ErrFileNotFound, ErrNoText, ErrNoQuotes}
    /\ (env.exists /\ env.extraction_success
          /\ detect_format_and_parse(lines, env.half_up).result = <<>>) =>
         (~ret.success /\ ret.error = ErrNoQuotes /\ ret.quotes = <<>>)

\* the text was extracted from a document with lines, and no group came out
C8_Witness ==
  /\ call = "process_single_pdf"
  /\ env.exists /\ env.extraction_success
  /\ lines # <<>>
  /\ ret.error = ErrNoQuotes

\* optional '-', one or more digits, '.', exactly two digits
IsTwoDecimal(s) ==
  LET body == IF s # <<>> /\ Head(s) = "-" THEN Tail(s) ELSE s
      n == Len(body)
  IN /\ n >= 4
     /\ body[n - 2] = "."
     /\ \A i \in (1..n) \ {n - 2} : body[i] \in Digit

\* float() accepts the cleaned token
IsParseable(p) == p # <<>> /\ py_float(clean_price(p)).ok

\* C9: normalize_price returns, for every token, an optional '-', digits, '.'
\* and exactly two digits, and "0.00" for the empty token and for a token
\* whose cleaned text float() does not accept.
C9_AlwaysTwoDecimal ==
  call = "normalize_price" =>
    /\ IsTwoDecimal(ret)
    /\ ~IsParseable(price_str) => ret = ZeroPrice

\* C9, the part the code keeps: the result is "0.00" for the empty token and
\* for a token float() does not accept, and is either two-decimal or one of
\* the texts Python writes for a non-finite float.
C9_SentinelOnFailure ==
  call = "normalize_price" =>
    /\ ~IsParseable(price_str) => ret = ZeroPrice
    /\ \/ IsTwoDecimal(ret)
       \/ ret \in {<<"n", "a", "n">>, <<"i", "n", "f">>, <<"-", "i", "n", "f">>}

\* the quantity all line items of a group share, as an integer
TierQuantity(g) == py_int(g.lineItems[1].quantity)

\* the accepted line items of the document, in encounter order
VtnAccepted ==
  LET RECURSIVE acc(_)
      acc(i) == IF i > Len(lines) THEN <<>>
                ELSE vtn_line(lines[i], env.half_up) \o acc(i + 1)
  IN acc(1)

\* s is a subsequence of t
RECURSIVE IsSubsequence(_, _)
IsSubsequence(s, t) ==
  IF s = <<>> THEN TRUE
  ELSE IF t = <<>> THEN FALSE
  ELSE IF Head(s) = Head(t) THEN IsSubsequence(Tail(s), Tail(t))
  ELSE IsSubsequence(s, Tail(t))

\* C10: Strategy A returns one group per distinct quantity among the accepted
\* items: all items of a group have the group's tier quantity, the groups are
\* in strictly ascending order of that quantity (so no two share it), and the
\* items of a group keep their encounter order.
C10_OneGroupPerQuantity ==
  call = "parse_vtn_format" =>
    /\ \A i \in DOMAIN ret :
         /\ \A j \in DOMAIN ret[i].lineItems :
              py_int(ret[i].lineItems[j].quantity) = TierQuantity(ret[i])
         /\ IsSubsequence(ret[i].lineItems, VtnAccepted)
    /\ \A i, j \in DOMAIN ret : i < j => TierQuantity(ret[i]) < TierQuantity(ret[j])

\* the leading integer token of a line (lines 72 and 89): the digits
\* ^\s*(\d+)\s+ captures in the stripped line, or no token
LeadingInteger(raw_line) ==
  LET line == strip(raw_line)
      qty_match == re_match_at(VtnQtyRe, line, 0)
  IN IF qty_match.found
     THEN [found |-> TRUE,
           text |-> Slice(line, qty_match.caps[1][1], qty_match.caps[1][2])]
     ELSE [found |-> FALSE]

\* C11: every line item Strategy A returns comes from a line of the document
\* whose leading integer token is the item's quantity, and that integer is at
\* most 10000; a line without the token, or with a greater integer, gives no
\* item.
C11_LeadingQuantity ==
  call = "parse_vtn_format" =>
    \A item \in StrategyItems :
      \E i \in DOMAIN lines :
        /\ item \in Range(vtn_line_of[lines[i], env.half_up])
        /\ LeadingInteger(lines[i]).found
        /\ LeadingInteger(lines[i]).text = item.quantity
        /\ py_int(LeadingInteger(lines[i]).text) <= QtyLimit

\* the items Strategy C accepts, in the order of their closing lines: the
\* loop of line 267 from the line after the header, collecting each accepted
\* item as its closing line is met
ThirtyTwoAccepted ==
  LET header_line_index ==
        first_line({i \in DOMAIN lines : thirtytwo_line_of[lines[i]].header})
      RECURSIVE acc(_, _)
      acc(i, buffer) ==
        IF i > Len(lines) THEN <<>>
        ELSE LET row == thirtytwo_line_of[lines[i]]
             IN IF row.blank THEN acc(i + 1, buffer)
                ELSE IF row.total THEN <<>>
                ELSE IF row.match.found
                THEN thirtytwo_close(row.line, row.match, buffer, env.half_up)
                     \o acc(i + 1, <<>>)
                ELSE acc(i + 1, Append(buffer, row.line))
  IN IF header_line_index = 0 THEN <<>> ELSE acc(header_line_index + 1, <<>>)

\* C12: Strategy C returns at most one group; it returns none when no item
\* is accepted, and otherwise the group's lineItems are the accepted items of
\* the document in the order of their closing lines, whatever their
\* quantities.
C12_SingleGroupEncounterOrder ==
  call = "parse_thirtytwo_machine_format" =>
    /\ Len(ret) <= 1
    /\ ThirtyTwoAccepted = <<>> => ret = <<>>
    /\ ThirtyTwoAccepted # <<>> =>
         /\ Len(ret) = 1
         /\ ret[1].lineItems = ThirtyTwoAccepted

\* the line contains, case-insensitively, every one of the five header words
HasAllHeaders(line) ==
  \A k \in DOMAIN SematoolHeaders : Contains(str_lower(line), SematoolHeaders[k])

\* the indices of the lines of the document that contain all five
FullHeaderLines == {i \in DOMAIN lines : HasAllHeaders(lines[i])}

\* C13: Strategy B takes a line for the table header only if it contains all
\* of item, description, quantity, price and amount: without such a line it
\* returns no groups, and every item it returns comes from a row after the
\* first such line.
C13_HeaderNeedsAllColumns ==
  call = "parse_sematool_format" =>
    /\ FullHeaderLines = {} => ret = <<>>
    /\ \A item \in StrategyItems :
         \E i \in DOMAIN lines :
           /\ i > first_line(FullHeaderLines)
           /\ item \in Range(sematool_line_of[lines[i], env.half_up].items)

====
